---- MODULE Spec2Model ----
(***************************************************************************)
(* godocdash: the crawl-parse-index pipeline of main.go.                   *)
(*                                                                         *)
(* main() creates the index (createDB), mirrors the static assets         *)
(* (grabLib / grabDirectory), lists the packages (getPackages) and runs    *)
(* one goroutine per package (grabPackages / grabPackage), each of which   *)
(* fetches a page, mirrors it, extracts its symbols (Parse) and inserts    *)
(* them into the searchIndex table (WriteDB / writeIndexes).               *)
(*                                                                         *)
(* The pipeline that runs is main.go's: grabPackage calls info.WriteDB(db). *)
(* package.go holds a later packageInfo (IsEmpty, a ParseFunc over h2 and  *)
(* h3, WriteInsert on a prepared statement) whose callers are not in the   *)
(* source; of it only IsEmpty is used here, as a predicate on records.     *)
(*                                                                         *)
(* The server's /pkg/ page and what fails in each package task are chosen  *)
(* when getPackages first observes them and are the same in a second run;  *)
(* the asset server answers each request as it pleases.                    *)
(*                                                                         *)
(* Spec is the whole program, run twice.  LibSpec is the asset crawl alone *)
(* with each HTTP request a step of its own, and ParseSpec is one call of  *)
(* info.Parse(doc) with its three goroutines interleaved; Spec takes a row *)
(* of a listing and a call of Parse as one step each.                      *)
(*                                                                         *)
(* Strings are sequences of tokens.  A token stands for a run of           *)
(* characters; the separators the code inspects ("/", ".", "#", " ") are   *)
(* tokens of their own, so Split, TrimRight, HasPrefix, HasSuffix,         *)
(* Contains and path.Join act on tokens as the Go functions act on         *)
(* characters.                                                             *)
(***************************************************************************)
EXTENDS Integers, Sequences, FiniteSets, Bags

(***************************************************************************)
(* Bounds of the model.                                                    *)
(***************************************************************************)
\* packages listed on the server's /pkg/ page
MaxPkgs == 2
\* directories the server lists below lib/godoc/
MaxDirs == 2
\* a failing index write fails at this Exec call of its task
FailAt == 2
\* h2, h3 and pre nodes of a document given to Parse
MaxNodes == 3

(***************************************************************************)
(* Strings (package strings, path).                                        *)
(***************************************************************************)
Last(s) == s[Len(s)]

Front(s) == SubSeq(s, 1, Len(s) - 1)

HasPrefix(s, p) == Len(s) >= Len(p) /\ SubSeq(s, 1, Len(p)) = p

HasSuffix(s, p) == Len(s) >= Len(p) /\ SubSeq(s, Len(s) - Len(p) + 1, Len(s)) = p

Contains(s, tok) == \E i \in 1..Len(s) : s[i] = tok

RECURSIVE TrimRight(_, _)
TrimRight(s, tok) ==
    IF s # <<>> /\ Last(s) = tok THEN TrimRight(Front(s), tok) ELSE s

\* strings.Split(s, sep): the sequence of the pieces between the separators
RECURSIVE Split(_, _)
Split(s, sep) ==
    IF ~Contains(s, sep) THEN <<s>>
    ELSE LET i == CHOOSE j \in 1..Len(s) :
                      s[j] = sep /\ \A k \in 1..(j - 1) : s[k] # sep
         IN  <<SubSeq(s, 1, i - 1)>> \o Split(SubSeq(s, i + 1, Len(s)), sep)

\* path.Clean on the segments of a relative path: "" and "." are dropped,
\* ".." removes the segment before it (or stays, at the front)
RECURSIVE CleanSegs(_, _)
CleanSegs(segs, out) ==
    IF segs = <<>> THEN out
    ELSE LET s == Head(segs) IN
         IF s = <<>> \/ s = <<".">> THEN CleanSegs(Tail(segs), out)
         ELSE IF s = <<".", ".">> /\ out # <<>> /\ Last(out) # <<".", ".">>
              THEN CleanSegs(Tail(segs), Front(out))
              ELSE CleanSegs(Tail(segs), Append(out, s))

RECURSIVE JoinSegs(_)
JoinSegs(segs) ==
    IF segs = <<>> THEN <<>>
    ELSE IF Len(segs) = 1 THEN Head(segs)
    ELSE Head(segs) \o <<"/">> \o JoinSegs(Tail(segs))

\* path.Join(a, b, c) for relative paths: Clean(a + "/" + b + "/" + c)
PathJoin(a, b, c) ==
    LET segs == CleanSegs(Split(a \o <<"/">> \o b \o <<"/">> \o c, "/"), <<>>)
    IN  IF segs = <<>> THEN <<".">> ELSE JoinSegs(segs)

getDocumentPath(packageName) ==
    PathJoin(<<"pkg">>, packageName, <<"index", ".", "html">>)

(***************************************************************************)
(* Documents.  A node is [tag, text, id, href, spans]: id and href are     *)
(* <<>> when the attribute is absent and <<value>> when it is present;     *)
(* href is the href of the nested a.permalink; spans are the id            *)
(* attributes of the span elements inside a pre.                           *)
(***************************************************************************)
Node(tag, text, id, href, spans) ==
    [tag |-> tag, text |-> text, id |-> id, href |-> href, spans |-> spans]

RECURSIVE SelectTag(_, _)
SelectTag(nodes, tag) ==
    IF nodes = <<>> THEN <<>>
    ELSE (IF Head(nodes).tag = tag THEN <<Head(nodes)>> ELSE <<>>)
         \o SelectTag(Tail(nodes), tag)

packageIndex(name, path) == [Name |-> name, Path |-> path]

\* the h2/h3 scan shared by ParseType and ParseFunc: text prefix, id, permalink
RECURSIVE ScanHeadings(_, _)
ScanHeadings(nodes, sign) ==
    IF nodes = <<>> THEN <<>>
    ELSE LET n == Head(nodes) IN
         (IF HasPrefix(n.text, sign) /\ n.id # <<>> /\ n.href # <<>>
          THEN <<packageIndex(n.id[1], n.href[1])>>
          ELSE <<>>)
         \o ScanHeadings(Tail(nodes), sign)

ParseType(doc) == ScanHeadings(SelectTag(doc, "h2"), <<"type", " ">>)

ParseFunc(doc) == ScanHeadings(SelectTag(doc, "h3"), <<"func", " ">>)

RECURSIVE ScanSpans(_)
ScanSpans(spans) ==
    IF spans = <<>> THEN <<>>
    ELSE (IF Head(spans) # <<>>
          THEN <<packageIndex(Head(spans)[1], <<"#">> \o Head(spans)[1])>>
          ELSE <<>>)
         \o ScanSpans(Tail(spans))

RECURSIVE ScanPre(_, _)
ScanPre(nodes, sign) ==
    IF nodes = <<>> THEN <<>>
    ELSE (IF HasPrefix(Head(nodes).text, sign) THEN ScanSpans(Head(nodes).spans)
          ELSE <<>>)
         \o ScanPre(Tail(nodes), sign)

\* ParseConstAndVariable: the Consts and the Variables it appends
ParseConst(doc) == ScanPre(SelectTag(doc, "pre"), <<"const">>)

ParseVariable(doc) == ScanPre(SelectTag(doc, "pre"), <<"var">>)

\* the record a task starts with (packageInfo{Name: packageName})
packageInfo(name) ==
    [Name |-> name, Err |-> "nil", IsPackage |-> FALSE,
     Consts |-> <<>>, Variables |-> <<>>, Funcs |-> <<>>, Types |-> <<>>]

\* info.Parse(doc): the three scans write disjoint fields
Parse(info, doc) ==
    [info EXCEPT !.Types = info.Types \o ParseType(doc),
                 !.Funcs = info.Funcs \o ParseFunc(doc),
                 !.Consts = info.Consts \o ParseConst(doc),
                 !.Variables = info.Variables \o ParseVariable(doc)]

IsEmpty(info) ==
    Len(info.Consts) + Len(info.Variables) + Len(info.Funcs) + Len(info.Types) <= 0

(***************************************************************************)
(* Index rows.                                                             *)
(***************************************************************************)
Row(name, type, path) == [name |-> name, type |-> type, path |-> path]

\* the Exec calls of writeIndexes(db, typeName, indexes), in order
RECURSIVE writeIndexes(_, _, _)
writeIndexes(info, typeName, indexes) ==
    IF indexes = <<>> THEN <<>>
    ELSE <<Row(info.Name \o <<".">> \o Head(indexes).Name,
               typeName,
               getDocumentPath(info.Name) \o Head(indexes).Path)>>
         \o writeIndexes(info, typeName, Tail(indexes))

\* variant: a Package row is written first, whatever the record holds
WriteDBPackageRow(info) ==
    <<Row(info.Name, "Package", getDocumentPath(info.Name))>>
    \o writeIndexes(info, "Type", info.Types)
    \o writeIndexes(info, "Function", info.Funcs)
    \o writeIndexes(info, "Constant", info.Consts)
    \o writeIndexes(info, "Variable", info.Variables)

\* the Exec calls of info.WriteDB(db), in order
WriteDB(info) ==
    writeIndexes(info, "Type", info.Types)
    \o writeIndexes(info, "Function", info.Funcs)
    \o writeIndexes(info, "Constant", info.Consts)
    \o writeIndexes(info, "Variable", info.Variables)

(***************************************************************************)
(* The documentation server.  Its /pkg/ page lists anchors (PkgAnchors is  *)
(* the page with every anchor the model knows, in page order; a server     *)
(* lists a sub-sequence of them), and PageOf is the page it serves for a   *)
(* package URL.                                                            *)
(***************************************************************************)
\* href attributes of the "div.pkg-dir td.pkg-name a" anchors (<<>>: no href)
PkgAnchors ==
    << <<<<"a", ".", "b">>>>,
       <<<<"a", ".", "b", "/">>>>,
       <<<<"a", ".", "b", "/", "c">>>>,
       <<<<"e", ".", "f">>>>,
       <<<<"g", ".", "h", "/">>>>,
       <<<<"d">>>>,
       <<<<"d", "/", "a", ".", "b">>>>,
       <<>> >>

\* a page: does it hold a div.pkg-dir, and its h2, h3 and pre nodes
Page(pkgDir, nodes) == [pkgDir |-> pkgDir, nodes |-> nodes]

TypeT == Node("h2", <<"type", " ", "T">>, <<<<"T">>>>, <<<<"#", "T">>>>, <<>>)

FuncF == Node("h2", <<"func", " ", "F">>, <<<<"F">>>>, <<<<"#", "F">>>>, <<>>)

MethodM ==
    Node("h3", <<"func", " ", "(", "T", ")", " ", "M">>,
         <<<<"T", ".", "M">>>>, <<<<"#", "T", ".", "M">>>>, <<>>)

ConstC == Node("pre", <<"const", " ", "(">>, <<>>, <<>>, <<<<<<"C">>>>, <<>>>>)

VarV == Node("pre", <<"var", " ", "V">>, <<>>, <<>>, <<<<<<"V">>>>>>)

\* headings the scans skip: no id, no permalink, another text
TypeNoId == Node("h2", <<"type", " ", "U">>, <<>>, <<<<"#", "U">>>>, <<>>)

FuncNoLink == Node("h3", <<"func", " ", "G">>, <<<<"G">>>>, <<>>, <<>>)

Overview == Node("h2", <<"Overview">>, <<<<"pkg-overview">>>>, <<<<"#", "pkg-overview">>>>, <<>>)

PageOf(packageName) ==
    CASE packageName = <<"a", ".", "b">> ->
             Page(FALSE, <<Overview, TypeT, FuncF, MethodM, ConstC>>)
      [] packageName = <<"a", ".", "b", "/">> ->
             Page(FALSE, <<TypeNoId, ConstC, VarV, VarV>>)
      [] packageName = <<"a", ".", "b", "/", "c">> ->
             Page(TRUE, <<TypeT>>)
      [] packageName = <<"e", ".", "f">> ->
             Page(FALSE, <<Overview, FuncNoLink>>)
      [] packageName = <<"g", ".", "h", "/">> ->
             Page(TRUE, <<Overview>>)
      [] OTHER -> Page(FALSE, <<TypeT>>)

\* rows of a directory listing: the number of children of the tr and the
\* href of its first anchor (<<>>: none)
ListingRows ==
    { [children |-> 1, href |-> <<<<".", ".">>>>],
      [children |-> 2, href |-> <<>>],
      [children |-> 2, href |-> <<<<"style", ".", "css">>>>],
      [children |-> 2, href |-> <<<<"godocs", ".", "js">>>>],
      [children |-> 2, href |-> <<<<"sub", "/">>>>] }

\* the rows of a server that also puts links into its navigation rows (links
\* that no other row has) and lists entries whose name is an unexpanded
\* template placeholder
CrawlRows ==
    ListingRows \cup
    { [children |-> 1, href |-> <<<<"up", ".", "css">>>>],
      [children |-> 1, href |-> <<<<"up", "/">>>>],
      [children |-> 2, href |-> <<<<"{{", "x", "}}", ".", "js">>>>],
      [children |-> 2, href |-> <<<<"{{", "x", "}}", "/">>>>] }

Host == <<"http:", "/", "/", "localhost:3000">>

\* what goes wrong in a package task: nothing, the page fetch, the mirror
\* write, or the FailAt-th Exec on the index
Faults == {"none", "fetch", "mirror", "exec"}

(***************************************************************************)
(* State.                                                                  *)
(***************************************************************************)
VARIABLES
    mainPc,       \* where main() is
    run,          \* which run of main() this is
    history,      \* per finished run: did the crawl complete, and its rows
    searchIndex,  \* the searchIndex table of docSet.dsidx, a bag of rows
    listed,       \* has the server's /pkg/ page been chosen
    pkgIndex,     \* the anchors of the server's /pkg/ page
    faults,       \* per package task: what goes wrong in it
    packages,     \* what getPackages returned
    pkgTasks,     \* the grabPackage goroutines, in spawn order
    pkgWg,        \* the WaitGroup of grabPackages
    dirTasks,     \* the grabDirectory calls, in spawn order
    libWg,        \* the WaitGroup of grabLib
    crashed,      \* the process died of a panic
    parsePc,      \* where a call of info.Parse(doc) is
    parseDoc,     \* its document
    parseInfo,    \* its record
    parseScan,    \* its three goroutines: where each is in its selection
    parseWg       \* its WaitGroup

vars ==
    <<mainPc, run, history, searchIndex, listed, pkgIndex, faults, packages,
      pkgTasks, pkgWg, dirTasks, libWg, crashed,
      parsePc, parseDoc, parseInfo, parseScan, parseWg>>

\* a call of info.Parse(doc) seen alone
parseVars == <<parsePc, parseDoc, parseInfo, parseScan, parseWg>>

\* main() and its goroutines
mainVars ==
    <<mainPc, run, history, searchIndex, listed, pkgIndex, faults, packages,
      pkgTasks, pkgWg, dirTasks, libWg, crashed>>

worldVars == <<listed, pkgIndex, faults>>

pkgVars == <<packages, pkgTasks, pkgWg>>

libVars == <<dirTasks, libWg>>

\* the three goroutines of Parse
Scans == {"ParseType", "ParseFunc", "ParseConstAndVariable"}

\* no call of Parse is looked at
ParseIdle ==
    /\ parsePc = "idle"
    /\ parseDoc = <<>>
    /\ parseInfo = packageInfo(<<>>)
    /\ parseScan = [k \in Scans |-> [pc |-> "idle", pos |-> 1]]
    /\ parseWg = 0

MainInit ==
    /\ mainPc = "genPlist"
    /\ run = 1
    /\ history = <<>>
    /\ searchIndex = EmptyBag
    /\ listed = FALSE
    /\ pkgIndex = <<>>
    /\ faults = <<>>
    /\ packages = <<>>
    /\ pkgTasks = <<>>
    /\ pkgWg = 0
    /\ dirTasks = <<>>
    /\ libWg = 0
    /\ crashed = FALSE

Init == MainInit /\ ParseIdle

(***************************************************************************)
(* The index (createDB, db.Exec).                                          *)
(***************************************************************************)
\* db.Exec of "INSERT OR IGNORE INTO searchIndex(name, type, path)" under the
\* unique index anchor on (name, type, path) that createDB creates: a row
\* already there is left alone, and the statement returns no error.  db is
\* a *sql.DB and no transaction is ever begun, so each Exec is committed to
\* the file as it returns.
\* variant: no unique index, every insert adds a row
ExecAppend(table, row) ==
    [table |-> table (+) SetToBag({row}), err |-> "nil"]

\* variant: a plain INSERT, which the unique index fails on a row already there
ExecPlainInsert(table, row) ==
    IF BagIn(row, table)
    THEN [table |-> table, err |-> "constraint"]
    ELSE [table |-> table (+) SetToBag({row}), err |-> "nil"]

Exec(table, row) ==
    [table |-> IF BagIn(row, table) THEN table ELSE table (+) SetToBag({row}),
     err |-> "nil"]

\* the rows of the table, as a set
Rows(table) == BagToSet(table)

(***************************************************************************)
(* main().                                                                 *)
(***************************************************************************)
Alive == ~crashed

\* main returns: the run is over; did grabPackages return, and with what rows
Finish(completed, table) ==
    history' = Append(history, [completed |-> completed, rows |-> Rows(table)])

\* genPlist(name): an error ends main
MainGenPlist ==
    /\ Alive /\ mainPc = "genPlist"
    /\ \E ok \in BOOLEAN :
          IF ok
          THEN mainPc' = "createDB" /\ UNCHANGED history
          ELSE mainPc' = "exit" /\ Finish(FALSE, searchIndex)
    /\ UNCHANGED <<parseVars, run, searchIndex, worldVars, pkgVars, libVars, crashed>>

\* createDB(): MkdirAll, os.Remove of the old file, Open, CREATE TABLE,
\* CREATE UNIQUE INDEX; an error ends main (before or after the Remove)
MainCreateDB ==
    /\ Alive /\ mainPc = "createDB"
    /\ \E outcome \in {"ok", "mkdir", "create"} :
          CASE outcome = "ok" ->
                   /\ searchIndex' = EmptyBag
                   /\ mainPc' = "grabLib"
                   /\ UNCHANGED history
            [] outcome = "mkdir" ->
                   /\ UNCHANGED searchIndex
                   /\ mainPc' = "exit"
                   /\ Finish(FALSE, searchIndex)
            [] outcome = "create" ->
                   /\ searchIndex' = EmptyBag
                   /\ mainPc' = "exit"
                   /\ Finish(FALSE, EmptyBag)
    /\ UNCHANGED <<parseVars, run, worldVars, pkgVars, libVars, crashed>>

(***************************************************************************)
(* grabLib / grabDirectory.                                                *)
(***************************************************************************)
\* a grabDirectory call: its relPath argument, where it is ("get": in the
\* http.Get of its listing; "rows": in the loop over the rows; "asset": in
\* the http.Get of an asset; "done": returned), and the url of the asset it
\* is downloading (<<>>: none)
DirTask(relPath) == [relPath |-> relPath, pc |-> "get", url |-> <<>>]

\* the URL grabDirectory fetches its listing from
ListingURL(relPath) == Host \o <<"/">> \o relPath

\* url := host + "/" + relPath + href
EntryURL(relPath, href) == Host \o <<"/">> \o relPath \o href

IsAsset(href) ==
    HasSuffix(href, <<".", "css">>) \/ HasSuffix(href, <<".", "js">>)

\* the relPath argument of the call grabDirectory spawns for a directory row
ChildRelPath(relPath, href) == EntryURL(relPath, href)

\* the test on the children of a row: len(selection.Children().Nodes) < 2
\* variant: only a row without children is skipped
IsNavigationRowEmpty(r) == r.children < 1

IsNavigationRow(r) == r.children < 2

\* grabLib: wg.Add(1), then the first grabDirectory call, in main's goroutine
MainGrabLib ==
    /\ Alive /\ mainPc = "grabLib"
    /\ libWg' = libWg + 1
    /\ dirTasks' = <<DirTask(<<"lib", "/", "godoc", "/">>)>>
    /\ mainPc' = "libWait"
    /\ UNCHANGED <<parseVars, run, history, searchIndex, worldVars, pkgVars, crashed>>

\* variant: the goroutine is started without wg.Add(1)
DirSpawnNoAdd(relPath) ==
    /\ UNCHANGED libWg
    /\ dirTasks' = Append(dirTasks, DirTask(relPath))

\* wg.Add(1); go grabDirectory(wg, host, url)
DirSpawn(relPath) ==
    /\ libWg' = libWg + 1
    /\ dirTasks' = Append(dirTasks, DirTask(relPath))

\* wg.Done()
DirDone(i) ==
    /\ dirTasks' = [dirTasks EXCEPT ![i].pc = "done"]
    /\ libWg' = libWg - 1

\* http.Get of the listing, ReadAll, NewDocumentFromReader: an error is
\* printed and the call returns
DirGet(i) ==
    /\ Alive /\ dirTasks[i].pc = "get"
    /\ \E outcome \in {"ok", "get", "read", "parse"} :
          IF outcome = "ok"
          THEN /\ dirTasks' = [dirTasks EXCEPT ![i].pc = "rows"]
               /\ UNCHANGED libWg
          ELSE DirDone(i)
    /\ UNCHANGED <<parseVars, mainPc, run, history, searchIndex, worldVars, pkgVars, crashed>>

\* one call of the function passed to doc.Find("tbody tr").Each, on the next
\* row r of the listing, whatever the server put there.  The server lists
\* MaxDirs directories in all.
DirRow(i) ==
    /\ Alive /\ dirTasks[i].pc = "rows"
    /\ \E r \in ListingRows :
          IF IsNavigationRow(r) \/ r.href = <<>>
          THEN UNCHANGED <<dirTasks, libWg, crashed>>
          ELSE IF IsAsset(r.href[1])
          THEN \* res, err := http.Get(url): the error is printed and the
               \* function goes on to res.Body, which panics when res is nil
               \* (it is nil unless a redirect policy made the error); an
               \* error of writeFile is printed
               \E got, resNil \in BOOLEAN :
                  /\ crashed' = (~got /\ resNil)
                  /\ UNCHANGED <<dirTasks, libWg>>
          ELSE /\ Len(dirTasks) <= MaxDirs
               /\ DirSpawn(ChildRelPath(dirTasks[i].relPath, r.href[1]))
               /\ UNCHANGED crashed
    /\ UNCHANGED <<parseVars, mainPc, run, history, searchIndex, worldVars, pkgVars>>

\* the listing has no more rows: grabDirectory returns
DirReturn(i) ==
    /\ Alive /\ dirTasks[i].pc = "rows"
    /\ DirDone(i)
    /\ UNCHANGED <<parseVars, mainPc, run, history, searchIndex, worldVars, pkgVars, crashed>>

\* wg.Wait() of grabLib returns
MainLibWait ==
    /\ Alive /\ mainPc = "libWait"
    /\ libWg = 0
    /\ dirTasks' = <<>>
    /\ mainPc' = "getPackages"
    /\ UNCHANGED <<parseVars, run, history, searchIndex, worldVars, pkgVars, libWg, crashed>>

(***************************************************************************)
(* getPackages / grabPackages / grabPackage.                               *)
(***************************************************************************)
\* the filter of getPackages on one anchor: it has an href, and the first
\* "/"-separated piece of the href contains a dot
\* variant: the dot is looked for in the whole href
IsListedAnyDot(anchor) ==
    /\ anchor # <<>>
    /\ Contains(anchor[1], ".")

IsListed(anchor) ==
    /\ anchor # <<>>
    /\ Contains(Split(anchor[1], "/")[1], ".")

RECURSIVE getPackages(_)
getPackages(anchors) ==
    IF anchors = <<>> THEN <<>>
    ELSE (IF IsListed(Head(anchors)) THEN <<Head(anchors)[1]>> ELSE <<>>)
         \o getPackages(Tail(anchors))

\* the anchors of PkgAnchors at the positions S, in page order
RECURSIVE AnchorsAt(_)
AnchorsAt(S) ==
    IF S = {} THEN <<>>
    ELSE LET i == CHOOSE j \in S : \A k \in S : j <= k
         IN  <<PkgAnchors[i]>> \o AnchorsAt(S \ {i})

\* the /pkg/ pages a server may have
PkgIndexPages ==
    { AnchorsAt(S) : S \in { T \in SUBSET (1..Len(PkgAnchors)) : Cardinality(T) <= MaxPkgs } }

\* getPackages(host): an error ends main.  The server's /pkg/ page, and
\* what goes wrong in each package task, are fixed when first observed and
\* stay the same in every later run.
MainGetPackages ==
    /\ Alive /\ mainPc = "getPackages"
    /\ \E ok \in BOOLEAN :
          IF ok
          THEN /\ IF listed
                  THEN UNCHANGED worldVars
                  ELSE /\ listed' = TRUE
                       /\ pkgIndex' \in PkgIndexPages
                       /\ faults' \in [1..Len(getPackages(pkgIndex')) -> Faults]
               /\ packages' = getPackages(pkgIndex')
               /\ mainPc' = "grabPackages"
               /\ UNCHANGED history
          ELSE /\ mainPc' = "exit"
               /\ Finish(FALSE, searchIndex)
               /\ UNCHANGED <<worldVars, packages>>
    /\ UNCHANGED <<parseVars, run, searchIndex, pkgTasks, pkgWg, libVars, crashed>>

\* a grabPackage goroutine: its record, the packageName of its URL, where it
\* is ("get": in http.Get of the page; "write": the links are rewritten, in
\* OuterHtml and writeFile; "db": in info.WriteDB(db), in the db.Exec of its
\* next row while one is left; "done": returned), and how many Exec calls of
\* WriteDB have returned
PkgTask(packageName) ==
    [info |-> packageInfo(TrimRight(packageName, "/")), href |-> packageName,
     pc |-> "get", n |-> 0]

\* one round of the loop of grabPackages: wg.Add(1); go grabPackage(...)
MainSpawn ==
    /\ Alive /\ mainPc = "grabPackages"
    /\ Len(pkgTasks) < Len(packages)
    /\ pkgWg' = pkgWg + 1
    /\ pkgTasks' = Append(pkgTasks, PkgTask(packages[Len(pkgTasks) + 1]))
    /\ UNCHANGED <<parseVars, mainPc, run, history, searchIndex, worldVars, packages, libVars, crashed>>

\* variant: grabPackages returns without wg.Wait()
MainPkgNoWait ==
    /\ Alive /\ mainPc = "grabPackages"
    /\ Len(pkgTasks) = Len(packages)
    /\ mainPc' = "done"
    /\ Finish(TRUE, searchIndex)
    /\ UNCHANGED <<parseVars, run, searchIndex, worldVars, pkgVars, libVars, crashed>>

\* wg.Wait() of grabPackages returns, and main with it
MainPkgWait ==
    /\ Alive /\ mainPc = "grabPackages"
    /\ Len(pkgTasks) = Len(packages)
    /\ pkgWg = 0
    /\ mainPc' = "done"
    /\ Finish(TRUE, searchIndex)
    /\ UNCHANGED <<parseVars, run, searchIndex, worldVars, pkgVars, libVars, crashed>>

\* the deferred calls of grabPackage: info.Err = err, info.Print(), wg.Done()
PkgReturn(i, err) ==
    /\ pkgTasks' = [pkgTasks EXCEPT ![i].info.Err = err, ![i].pc = "done"]
    /\ pkgWg' = pkgWg - 1

\* http.Get, ReadAll, NewDocumentFromReader, the div.pkg-dir test,
\* replaceLinks and OuterHtml
GrabPackageGet(i) ==
    /\ Alive /\ pkgTasks[i].pc = "get"
    /\ IF faults[i] = "fetch"
       THEN \E err \in {"get", "read", "parse"} : PkgReturn(i, err)
       ELSE IF PageOf(pkgTasks[i].href).pkgDir
       THEN PkgReturn(i, "nil")
       ELSE /\ pkgTasks' = [pkgTasks EXCEPT ![i].info.IsPackage = TRUE,
                                            ![i].pc = "write"]
            /\ UNCHANGED pkgWg
    /\ UNCHANGED <<parseVars, mainPc, run, history, searchIndex, worldVars, packages, libVars, crashed>>

\* variant: info.Parse(doc) runs before OuterHtml and writeFile
GrabPackageParseFirst(i) ==
    /\ Alive /\ pkgTasks[i].pc = "write"
    /\ LET parsed == Parse(pkgTasks[i].info, PageOf(pkgTasks[i].href).nodes) IN
       IF faults[i] = "mirror"
       THEN \E err \in {"html", "write"} :
               /\ pkgTasks' = [pkgTasks EXCEPT ![i].info = [parsed EXCEPT !.Err = err],
                                                ![i].pc = "done"]
               /\ pkgWg' = pkgWg - 1
       ELSE /\ pkgTasks' = [pkgTasks EXCEPT ![i].info = parsed, ![i].pc = "db"]
            /\ UNCHANGED pkgWg
    /\ UNCHANGED <<parseVars, mainPc, run, history, searchIndex, worldVars, packages, libVars, crashed>>

\* OuterHtml and writeFile of the page, then info.Parse(doc)
GrabPackageWrite(i) ==
    /\ Alive /\ pkgTasks[i].pc = "write"
    /\ IF faults[i] = "mirror"
       THEN \E err \in {"html", "write"} : PkgReturn(i, err)
       ELSE /\ pkgTasks' =
                 [pkgTasks EXCEPT
                     ![i].info = Parse(pkgTasks[i].info, PageOf(pkgTasks[i].href).nodes),
                     ![i].pc = "db"]
            /\ UNCHANGED pkgWg
    /\ UNCHANGED <<parseVars, mainPc, run, history, searchIndex, worldVars, packages, libVars, crashed>>

\* the next db.Exec of info.WriteDB(db): an error ends WriteDB
GrabPackageExec(i) ==
    /\ Alive /\ pkgTasks[i].pc = "db"
    /\ pkgTasks[i].n < Len(WriteDB(pkgTasks[i].info))
    /\ IF faults[i] = "exec" /\ pkgTasks[i].n + 1 = FailAt
       THEN /\ PkgReturn(i, "exec")
            /\ UNCHANGED searchIndex
       ELSE LET res == Exec(searchIndex, WriteDB(pkgTasks[i].info)[pkgTasks[i].n + 1])
            IN  /\ searchIndex' = res.table
                /\ IF res.err = "nil"
                   THEN /\ pkgTasks' = [pkgTasks EXCEPT ![i].n = pkgTasks[i].n + 1]
                        /\ UNCHANGED pkgWg
                   ELSE PkgReturn(i, res.err)
    /\ UNCHANGED <<parseVars, mainPc, run, history, worldVars, packages, libVars, crashed>>

\* WriteDB returns nil after its last Exec
GrabPackageReturn(i) ==
    /\ Alive /\ pkgTasks[i].pc = "db"
    /\ pkgTasks[i].n = Len(WriteDB(pkgTasks[i].info))
    /\ PkgReturn(i, "nil")
    /\ UNCHANGED <<parseVars, mainPc, run, history, searchIndex, worldVars, packages, libVars, crashed>>

\* main is run again: a new process, the index file of the last run on disk
MainRerun ==
    /\ Alive /\ mainPc \in {"done", "exit"}
    /\ run = 1
    /\ run' = run + 1
    /\ mainPc' = "genPlist"
    /\ packages' = <<>>
    /\ pkgTasks' = <<>>
    /\ pkgWg' = 0
    /\ UNCHANGED <<parseVars, history, searchIndex, worldVars, libVars, crashed>>

Next ==
    \/ MainGenPlist
    \/ MainCreateDB
    \/ MainGrabLib
    \/ \E i \in 1..Len(dirTasks) : DirGet(i)
    \/ \E i \in 1..Len(dirTasks) : DirRow(i)
    \/ \E i \in 1..Len(dirTasks) : DirReturn(i)
    \/ MainLibWait
    \/ MainGetPackages
    \/ MainSpawn
    \/ \E i \in 1..Len(pkgTasks) : GrabPackageGet(i)
    \/ \E i \in 1..Len(pkgTasks) : GrabPackageWrite(i)
    \/ \E i \in 1..Len(pkgTasks) : GrabPackageExec(i)
    \/ \E i \in 1..Len(pkgTasks) : GrabPackageReturn(i)
    \/ MainPkgWait
    \/ MainRerun

Spec == Init /\ [][Next]_vars

(***************************************************************************)
(* The asset crawl alone (grabLib and its grabDirectory calls), cut at     *)
(* each HTTP request, against a server that lists CrawlRows.  DirEntry and *)
(* DirAsset are the two halves of DirRow: up to the http.Get of an asset,  *)
(* and from its return.                                                    *)
(***************************************************************************)
DirEntry(i) ==
    /\ Alive /\ dirTasks[i].pc = "rows"
    /\ \E r \in CrawlRows :
          IF IsNavigationRow(r) \/ r.href = <<>>
          THEN UNCHANGED <<dirTasks, libWg>>
          ELSE IF IsAsset(r.href[1])
          THEN /\ dirTasks' =
                    [dirTasks EXCEPT ![i].pc = "asset",
                                     ![i].url = EntryURL(dirTasks[i].relPath, r.href[1])]
               /\ UNCHANGED libWg
          ELSE /\ Len(dirTasks) <= MaxDirs
               /\ DirSpawn(ChildRelPath(dirTasks[i].relPath, r.href[1]))
    /\ UNCHANGED <<parseVars, mainPc, run, history, searchIndex, worldVars, pkgVars, crashed>>

DirAsset(i) ==
    /\ Alive /\ dirTasks[i].pc = "asset"
    /\ \E got, resNil \in BOOLEAN :
          /\ crashed' = (~got /\ resNil)
          /\ dirTasks' = [dirTasks EXCEPT ![i].pc = "rows", ![i].url = <<>>]
    /\ UNCHANGED <<parseVars, mainPc, run, history, searchIndex, worldVars, pkgVars, libWg>>

LibNext ==
    \/ MainGenPlist
    \/ MainCreateDB
    \/ MainGrabLib
    \/ \E i \in 1..Len(dirTasks) : DirGet(i)
    \/ \E i \in 1..Len(dirTasks) : DirEntry(i)
    \/ \E i \in 1..Len(dirTasks) : DirAsset(i)
    \/ \E i \in 1..Len(dirTasks) : DirReturn(i)
    \/ MainLibWait

LibSpec == Init /\ [][LibNext]_vars

(***************************************************************************)
(* One call of info.Parse(doc) alone: it starts a goroutine for each of    *)
(* ParseType, ParseFunc and ParseConstAndVariable and waits for the three. *)
(* Each goroutine walks its selection of the document node by node and     *)
(* appends to the record; the three run interleaved.                       *)
(***************************************************************************)
\* the nodes the documents are made of
SampleNodes == {TypeT, FuncF, MethodM, ConstC, VarV, FuncNoLink}

Docs == UNION { [1..n -> SampleNodes] : n \in 0..MaxNodes }

ParseName == <<"a", ".", "b">>

ParseInit ==
    /\ MainInit
    /\ parsePc = "ParseType"
    /\ parseDoc \in Docs
    /\ parseInfo = packageInfo(ParseName)
    /\ parseScan = [k \in Scans |-> [pc |-> "idle", pos |-> 1]]
    /\ parseWg = 0

\* the nodes a goroutine visits: doc.Find("h2"), doc.Find("h3"), doc.Find("pre")
Selection(k, nodes) ==
    CASE k = "ParseType" -> SelectTag(nodes, "h2")
      [] k = "ParseFunc" -> SelectTag(nodes, "h3")
      [] k = "ParseConstAndVariable" -> SelectTag(nodes, "pre")

\* wg.Add(1); go func() { defer wg.Done(); info.ParseX(doc) }(), for the
\* three scans in turn
ParseGo ==
    /\ parsePc \in Scans
    /\ parseWg' = parseWg + 1
    /\ parseScan' = [parseScan EXCEPT ![parsePc].pc = "run"]
    /\ parsePc' = CASE parsePc = "ParseType" -> "ParseFunc"
                    [] parsePc = "ParseFunc" -> "ParseConstAndVariable"
                    [] parsePc = "ParseConstAndVariable" -> "wait"
    /\ UNCHANGED <<mainVars, parseDoc, parseInfo>>

\* one call of the function a scan passes to Each, on the next node of its
\* selection
ScanNode(k) ==
    /\ parseScan[k].pc = "run"
    /\ parseScan[k].pos <= Len(Selection(k, parseDoc))
    /\ LET n == Selection(k, parseDoc)[parseScan[k].pos] IN
       parseInfo' =
           CASE k = "ParseType" ->
                    [parseInfo EXCEPT !.Types = @ \o ScanHeadings(<<n>>, <<"type", " ">>)]
             [] k = "ParseFunc" ->
                    [parseInfo EXCEPT !.Funcs = @ \o ScanHeadings(<<n>>, <<"func", " ">>)]
             [] k = "ParseConstAndVariable" ->
                    [parseInfo EXCEPT !.Consts = @ \o ScanPre(<<n>>, <<"const">>),
                                      !.Variables = @ \o ScanPre(<<n>>, <<"var">>)]
    /\ parseScan' = [parseScan EXCEPT ![k].pos = @ + 1]
    /\ UNCHANGED <<mainVars, parsePc, parseDoc, parseWg>>

\* the scan has visited its selection: the goroutine returns, wg.Done()
ScanReturn(k) ==
    /\ parseScan[k].pc = "run"
    /\ parseScan[k].pos > Len(Selection(k, parseDoc))
    /\ parseScan' = [parseScan EXCEPT ![k].pc = "done"]
    /\ parseWg' = parseWg - 1
    /\ UNCHANGED <<mainVars, parsePc, parseDoc, parseInfo>>

\* variant: Parse returns without wg.Wait()
ParseNoWait ==
    /\ parsePc = "wait"
    /\ parsePc' = "returned"
    /\ UNCHANGED <<mainVars, parseDoc, parseInfo, parseScan, parseWg>>

\* wg.Wait() returns, and Parse with it
ParseWait ==
    /\ parsePc = "wait"
    /\ parseWg = 0
    /\ parsePc' = "returned"
    /\ UNCHANGED <<mainVars, parseDoc, parseInfo, parseScan, parseWg>>

ParseNext ==
    \/ ParseGo
    \/ \E k \in Scans : ScanNode(k)
    \/ \E k \in Scans : ScanReturn(k)
    \/ ParseWait

ParseSpec == ParseInit /\ [][ParseNext]_vars

(***************************************************************************)
(* Properties.                                                             *)
(***************************************************************************)
TaskIds == 1..Len(pkgTasks)

Range(seq) == { seq[k] : k \in 1..Len(seq) }

\* the rows the index is to hold for the symbols of a record
SymbolRows(info) ==
    LET rows(typeName, list) ==
            { Row(info.Name \o <<".">> \o s.Name, typeName,
                  getDocumentPath(info.Name) \o s.Path) : s \in Range(list) }
    IN  rows("Type", info.Types) \cup rows("Function", info.Funcs)
        \cup rows("Constant", info.Consts) \cup rows("Variable", info.Variables)

PackageRow(info) == Row(info.Name, "Package", getDocumentPath(info.Name))

\* r is a row of the package importPath: its path is the package's document
\* and its name is importPath or importPath + "." + symbol
RowOfPackage(r, importPath) ==
    /\ HasPrefix(r.path, getDocumentPath(importPath))
    /\ r.name = importPath \/ HasPrefix(r.name, importPath \o <<".">>)

\* what extraction yields on the page the server serves for an href
Extracted(href) == Parse(packageInfo(TrimRight(href, "/")), PageOf(href).nodes)

\* C1: after a complete run, every package whose extraction yielded a symbol
\* (and whose task returned without an error) has exactly one Package row and
\* exactly one row per extracted symbol in the index.
C1_PackageAndSymbolRows ==
    mainPc = "done" =>
        \A i \in TaskIds :
            LET info == pkgTasks[i].info IN
            (info.Err = "nil" /\ ~IsEmpty(info)) =>
                /\ CopiesIn(PackageRow(info), searchIndex) = 1
                /\ \A r \in SymbolRows(info) : CopiesIn(r, searchIndex) = 1

\* C2: a listed package whose extraction yields no symbol has no row of any
\* entry type in the index, in every reachable state.
C2_NoRowsForEmptyPackage ==
    \A h \in Range(getPackages(pkgIndex)) :
        IsEmpty(Extracted(h)) =>
            \A r \in Rows(searchIndex) : ~RowOfPackage(r, TrimRight(h, "/"))

\* a task of a package without symbols has run WriteDB and returned, beside
\* the rows of another package
C2_Witness ==
    /\ mainPc = "done"
    /\ searchIndex # EmptyBag
    /\ \E i \in TaskIds :
          /\ IsEmpty(Extracted(pkgTasks[i].href))
          /\ pkgTasks[i].info.IsPackage
          /\ pkgTasks[i].info.Err = "nil"

\* the row the next Exec of task i inserts
NextRow(i) == WriteDB(pkgTasks[i].info)[pkgTasks[i].n + 1]

\* task i is at an Exec that the environment does not fail
AtExec(i) ==
    /\ pkgTasks[i].pc = "db"
    /\ pkgTasks[i].n < Len(WriteDB(pkgTasks[i].info))
    /\ ~(faults[i] = "exec" /\ pkgTasks[i].n + 1 = FailAt)

\* C3: no two rows of the index share (name, type, path), and an insert of a
\* triple already there leaves the index as it is and returns no error.
C3_UniqueRows ==
    /\ [](\A r \in Rows(searchIndex) : CopiesIn(r, searchIndex) = 1)
    /\ [][\A i \in TaskIds :
             (/\ AtExec(i)
              /\ BagIn(NextRow(i), searchIndex)
              /\ Len(pkgTasks') = Len(pkgTasks)
              /\ pkgTasks'[i] # pkgTasks[i])
             => /\ searchIndex' = searchIndex
                /\ pkgTasks'[i].n = pkgTasks[i].n + 1
                /\ pkgTasks'[i].info.Err = "nil"
                /\ pkgTasks'[i].pc = "db"]_vars

\* two Exec calls of the same triple have returned, in one task or in two
C3_Witness ==
    \E i, j \in TaskIds :
        \E a \in 1..pkgTasks[i].n, b \in 1..pkgTasks[j].n :
            /\ <<i, a>> # <<j, b>>
            /\ WriteDB(pkgTasks[i].info)[a] = WriteDB(pkgTasks[j].info)[b]
            /\ i # j \/ pkgTasks[i].pc = "done"

\* C4: two complete runs in succession against the same server leave the same
\* set of rows, whatever the interleaving of the package tasks in each.
C4_SameRowsAfterRerun ==
    (Len(history) = 2 /\ history[1].completed /\ history[2].completed)
        => history[1].rows = history[2].rows

\* two runs completed, each with two package tasks, and left rows
C4_Witness ==
    /\ Len(history) = 2 /\ history[1].completed /\ history[2].completed
    /\ history[2].rows # {}
    /\ Len(pkgTasks) >= 2
    /\ \A i \in TaskIds : pkgTasks[i].n >= 1

\* the first "/"-separated segment of an import path contains no dot
NoDotDomain(href) == ~Contains(Split(href, "/")[1], ".")

\* C5: an import path whose first segment has no dot is never returned by
\* getPackages, never given a task, and no row of the index is a row of it.
C5_StandardPackagesSkipped ==
    /\ \A p \in Range(packages) : ~NoDotDomain(p)
    /\ \A i \in TaskIds : ~NoDotDomain(pkgTasks[i].href) /\ ~NoDotDomain(pkgTasks[i].info.Name)
    /\ \A a \in Range(pkgIndex) :
          (a # <<>> /\ NoDotDomain(a[1])) =>
              \A r \in Rows(searchIndex) : ~RowOfPackage(r, TrimRight(a[1], "/"))

\* the /pkg/ page lists an import path without a dot in its first segment
\* and with one in a later segment, and the run completed with rows
C5_Witness ==
    /\ mainPc = "done"
    /\ searchIndex # EmptyBag
    /\ \E a \in Range(pkgIndex) :
          a # <<>> /\ NoDotDomain(a[1]) /\ Contains(a[1], ".")

Running(t) == t.pc # "done"

\* C6: the wait counter of grabLib is never zero while a grabDirectory call
\* is running, and grabLib's wait returns only when all of them, the
\* transitively spawned ones included, have finished.
C6_LibWaitsForAllDirectories ==
    /\ [](libWg = 0 => \A i \in 1..Len(dirTasks) : ~Running(dirTasks[i]))
    /\ [][(mainPc = "libWait" /\ mainPc' # "libWait")
             => \A i \in 1..Len(dirTasks) : ~Running(dirTasks[i])]_vars

\* a call spawned by a spawned call has finished, and the counter is zero
C6_Witness ==
    /\ mainPc = "libWait"
    /\ libWg = 0
    /\ \E i \in 1..Len(dirTasks) :
          /\ ~Running(dirTasks[i])
          /\ HasPrefix(dirTasks[i].relPath, Host \o <<"/">> \o Host)

\* C7: grabPackages returns only after every package task has finished, and
\* a task in which nothing fails has all its rows in the index then, whatever
\* failed in its siblings.
C7_PackageFailuresIsolated ==
    mainPc = "done" =>
        /\ Len(pkgTasks) = Len(packages)
        /\ \A i \in TaskIds :
              /\ pkgTasks[i].pc = "done"
              /\ (faults[i] = "none" /\ ~PageOf(pkgTasks[i].href).pkgDir) =>
                    /\ pkgTasks[i].info.Err = "nil"
                    /\ pkgTasks[i].info = [Extracted(pkgTasks[i].href) EXCEPT !.IsPackage = TRUE]
                    /\ pkgTasks[i].n = Len(WriteDB(pkgTasks[i].info))
                    /\ \A r \in SymbolRows(pkgTasks[i].info) : BagIn(r, searchIndex)

\* the run is over; one task failed and a sibling has its rows in the index
C7_Witness ==
    /\ mainPc = "done"
    /\ \E i, j \in TaskIds :
          /\ pkgTasks[i].info.Err # "nil"
          /\ pkgTasks[j].info.Err = "nil"
          /\ pkgTasks[j].n >= 1
          /\ \A r \in SymbolRows(pkgTasks[j].info) : BagIn(r, searchIndex)

\* C8: every insert of the crawl is inside one transaction committed once,
\* after every package task has completed: while a package task has not
\* completed, the index file holds no row.
C8_CommitAfterAllTasks ==
    (\E i \in TaskIds : pkgTasks[i].pc # "done") => searchIndex = EmptyBag

C10_AssetFailureNeverCrashes == ~crashed

DirIds == 1..Len(dirTasks)

\* C11: the asset crawl never issues an HTTP request, for a directory listing
\* or for an asset, for a path that contains "{{".
C11_TemplatePathsNeverFetched ==
    \A i \in DirIds :
        /\ ~Contains(ListingURL(dirTasks[i].relPath), "{{")
        /\ dirTasks[i].pc = "asset" => ~Contains(dirTasks[i].url, "{{")

\* C12: a row with fewer than two children causes no asset download and no
\* grabDirectory call, whatever its link: no call has a relPath, and no
\* download a url, that ends with the link of such a row.
C12_NavigationRowsSkipped ==
    \A r \in CrawlRows :
        (r.children < 2 /\ r.href # <<>>) =>
            \A i \in DirIds :
                /\ ~HasSuffix(dirTasks[i].relPath, r.href[1])
                /\ ~HasSuffix(dirTasks[i].url, r.href[1])

\* the rows of two listings are being read: the first call has spawned a
\* call for a directory row, and that call is downloading an asset of its own
C12_Witness ==
    /\ Len(dirTasks) >= 2
    /\ dirTasks[2].pc = "asset"
    /\ dirTasks[1].pc = "rows"

\* C18: the call spawned for a directory row with link href, found in the
\* listing of relPath, has the relative path relPath + href, so it fetches
\* host + "/" + relPath + href.
C18_ChildPathIsRelative ==
    \A j \in DirIds :
        j > 1 =>
            \E i \in 1..(j - 1) :
                \E r \in CrawlRows :
                    /\ r.children >= 2 /\ r.href # <<>> /\ ~IsAsset(r.href[1])
                    /\ dirTasks[j].relPath = dirTasks[i].relPath \o r.href[1]
                    /\ ListingURL(dirTasks[j].relPath)
                          = Host \o <<"/">> \o dirTasks[i].relPath \o r.href[1]

\* a db.Exec of a task has returned an error
ExecFailed ==
    \E i \in TaskIds : pkgTasks[i].pc = "done" /\ pkgTasks[i].info.Err = "exec"

\* C13: an error of an insert into the index ends the whole run at once: the
\* run never completes with such an error recorded for one package, and no
\* row is inserted and no package task goes on after the error.
C13_PersistenceErrorIsFatal ==
    /\ [](ExecFailed => mainPc # "done")
    /\ [][ExecFailed => (searchIndex' = searchIndex /\ pkgWg' = pkgWg)]_vars

\* the rows a package task inserts, given the page the server serves for its
\* href and what goes wrong in it: a function of the server and the failure
\* alone
RowsOfTask(href, fault) ==
    LET calls == WriteDB(Extracted(href)) IN
    IF fault \in {"fetch", "mirror"} \/ PageOf(href).pkgDir THEN {}
    ELSE IF fault = "exec" /\ Len(calls) >= FailAt
         THEN { calls[k] : k \in 1..(FailAt - 1) }
         ELSE Range(calls)

\* C14: for a fixed server (and the same failures), the rows of the index
\* after the crawl are the same whatever the interleaving and the completion
\* order of the package tasks and of their inserts.
C14_RowsIndependentOfInterleaving ==
    mainPc = "done" =>
        Rows(searchIndex) =
            UNION { RowsOfTask(packages[i], faults[i]) : i \in 1..Len(packages) }

\* a run completed in which two tasks each made two or more inserts, one
\* row being a row of both
C14_Witness ==
    /\ mainPc = "done"
    /\ Len(pkgTasks) = 2
    /\ pkgTasks[1].pc = "done" /\ pkgTasks[2].pc = "done"
    /\ pkgTasks[1].n >= 2 /\ pkgTasks[2].n >= 2
    /\ Range(WriteDB(pkgTasks[1].info)) \cap Range(WriteDB(pkgTasks[2].info)) # {}

\* task i is in a call of db.Exec: WriteDB has an insert left
InExec(i) ==
    /\ pkgTasks[i].pc = "db"
    /\ pkgTasks[i].n < Len(WriteDB(pkgTasks[i].info))

\* C15: the writes to the index are serialized: no two package tasks are in
\* an insert at the same time.  (db is a *sql.DB, a pool of connections;
\* the program has no statement handle, transaction or lock that a task
\* would hold, so none is part of the state.)
C15_IndexWritesSerialized ==
    \A i, j \in TaskIds : (InExec(i) /\ InExec(j)) => i = j

\* replaceLinks has run on the document of task i (info.IsPackage is set
\* right before it)
LinksRewritten(i) == pkgTasks[i].info.IsPackage

\* info.Parse(doc) has returned in task i
ParseReturned(i) ==
    \/ pkgTasks[i].pc = "db"
    \/ pkgTasks[i].pc = "done" /\ pkgTasks[i].info.IsPackage
                               /\ pkgTasks[i].info.Err \in {"nil", "exec"}

\* C16: within a package task, the extraction of the symbols has completed
\* before the links of the document are rewritten and before a row of the
\* package is written.
C16_ExtractionBeforeRewriteAndWrite ==
    \A i \in TaskIds :
        /\ LinksRewritten(i) => ParseReturned(i)
        /\ pkgTasks[i].n > 0 => ParseReturned(i)

\* a heading the function scan is to record: an h2 or an h3 whose text
\* begins with "func " and that has an id and a permalink href
IsFuncHeading(n) ==
    /\ n.tag \in {"h2", "h3"}
    /\ HasPrefix(n.text, <<"func", " ">>)
    /\ n.id # <<>> /\ n.href # <<>>

\* C17: when Parse has returned, the functions list holds every h2 and every
\* h3 of the document whose text begins with "func " and that has an id and
\* a permalink href.
C17_FunctionScanCoversBothLevels ==
    parsePc = "returned" =>
        \A k \in 1..Len(parseDoc) :
            IsFuncHeading(parseDoc[k]) =>
                packageIndex(parseDoc[k].id[1], parseDoc[k].href[1])
                    \in Range(parseInfo.Funcs)

\* C19: the three scans write disjoint parts of the record and never the
\* document; Parse returns only when the three have finished, and the four
\* lists are then those of the three scans run one after the other, under
\* every interleaving.
C19_ScansDisjointAndJoined ==
    /\ [](parsePc = "returned" =>
             /\ \A k \in Scans : parseScan[k].pc = "done"
             /\ parseInfo = Parse(packageInfo(ParseName), parseDoc))
    /\ [][/\ parseDoc' = parseDoc
          /\ parseInfo'.Name = parseInfo.Name
          /\ parseInfo'.Err = parseInfo.Err
          /\ parseInfo'.IsPackage = parseInfo.IsPackage
          /\ parseScan'["ParseType"] = parseScan["ParseType"]
                => parseInfo'.Types = parseInfo.Types
          /\ parseScan'["ParseFunc"] = parseScan["ParseFunc"]
                => parseInfo'.Funcs = parseInfo.Funcs
          /\ parseScan'["ParseConstAndVariable"] = parseScan["ParseConstAndVariable"]
                => /\ parseInfo'.Consts = parseInfo.Consts
                   /\ parseInfo'.Variables = parseInfo.Variables]_vars

\* Parse has returned on a document with a type, a method and a const or
\* var block: each of the three scans has written to the record
C19_Witness ==
    /\ parsePc = "returned"
    /\ parseInfo.Types # <<>>
    /\ parseInfo.Funcs # <<>>
    /\ parseInfo.Consts \o parseInfo.Variables # <<>>

\* C20: each wait counter is the number of the tasks of its wait that have
\* been spawned and have not returned (incremented before the spawn,
\* decremented once on every exit), and while main() is in one of the two
\* waits the program can take a step that changes its state, so that with
\* finitely many tasks, each of finitely many steps, the counter returns to
\* zero and the wait returns.
C20_WaitsReturn ==
    /\ libWg = Cardinality({ i \in DirIds : Running(dirTasks[i]) })
    /\ pkgWg = Cardinality({ i \in TaskIds : Running(pkgTasks[i]) })
    /\ mainPc \in {"libWait", "grabPackages"} => ENABLED <<Next>>_vars

====
